---- MODULE Spec2Model ----
(***************************************************************************)
(* LaunchDarkly flag health check: the batch detail fetch (the Next.js     *)
(* route POST /api/flag-details-batch and the legacy browser script's      *)
(* fetchFlagDetailsBatched), the coordinator that drives it (handleSubmit  *)
(* in page.tsx, runHealthCheck in the legacy script) and the evaluation    *)
(* of the outcomes (getEnvironmentDefaultValue, valuesMatch,               *)
(* calculateSummary, handleExport), and the outbound calls of the API       *)
(* routes: the RateLimiter singleton and fetchWithRetry, next to            *)
(* RateLimitManager and fetchWithRateLimit of the legacy script.            *)
(***************************************************************************)
EXTENDS Integers, Sequences, FiniteSets, TLC

VARIABLES
    impl,           \* "next" (page.tsx + API routes) or "legacy" (browser script)
    flags,          \* the flag statuses the status listing returns
    behav,          \* per flag: how the upstream answers its detail fetches
    arrival,        \* the order in which the network lets in-flight fetches finish
    environment,    \* the environment key of the form
    pc,             \* where the coordinator is
    resultsAtSubmit,\* `results` as the running handleSubmit closure sees it
    loading, error, partialResults, results, summary,   \* page state
    flagDetails,    \* the batch outcomes as the coordinator received them
    stats,          \* the `stats` member of the batch response (or NoStats)
    exported,       \* the rows of the last handleExport
    i,              \* loop index of the batch loop (0-based, as in the code)
    wave,           \* "none" | "running" | "cooldown" | "returned"
    item,           \* per input position: the state of its fetchFlagDetail call
    settleOrder,    \* positions of the current wave in the order they settled
    routeResults,   \* the `results` array of the batch loop
    rateLimitInfo,  \* the quota state of the RateLimiter / RateLimitManager
    call,           \* the outbound call in progress (fetchWithRetry / fetchWithRateLimit)
    progress,       \* the (current, total) pairs reported to the progress display in this run
    observed,       \* the headers of the latest updateFromHeaders call, and whether anything was known before it
    listing,        \* the project listing loop: its locals, the upstream it reads and what its caller gets
    view            \* filter, searchQuery, sortBy and sortOrder of the results view

vars == << impl, flags, behav, arrival, environment, pc, resultsAtSubmit,
           loading, error, partialResults, results, summary, flagDetails,
           stats, exported, i, wave, item, settleOrder, routeResults,
           rateLimitInfo, call, progress, observed, listing, view >>

(***************************************************************************)
(* Bounds of the model.                                                    *)
(***************************************************************************)
\* lists up to this length get every combination of upstream behaviours
MaxFree == 2
\* lists up to this length get every completion interleaving
MaxAny == 4
\* the longest list (two waves, the second of MaxFlags - batchSize items)
MaxFlags == 17
\* the most 429 responses the upstream gives one flag before its final answer
MaxPre == 4
\* SpecEval: the longest list of outcomes
MaxOutcomes == 3
\* SpecPage: the most timer ticks of the progress estimate in one run
MaxTicks == 2

(***************************************************************************)
(* Program constants.                                                      *)
(***************************************************************************)
batchSize == 15
retries == 3

(***************************************************************************)
(* JavaScript values: a type tag, a payload (boolean 0/1, the number, the  *)
(* string's code, the object's reference) and, for objects, the shape      *)
(* (content) the reference points to.  A number's shape is its fraction in  *)
(* halves: JSFrac(n) is n + 0.5.                                            *)
(***************************************************************************)
JSVal(t, v, s) == [t |-> t, v |-> v, shape |-> s]
Undefined == JSVal("undefined", 0, 0)
Null == JSVal("null", 0, 0)
JSBool(b) == JSVal("boolean", IF b THEN 1 ELSE 0, 0)
JSNum(n) == JSVal("number", n, 0)
JSFrac(n) == JSVal("number", n, 1)
JSStr(c) == JSVal("string", c, 0)
JSObj(ref, s) == JSVal("object", ref, s)

IsNullish(x) == x.t = "null" \/ x.t = "undefined"

\* deep (structural) comparison instead of ===
DeepEquals(a, b) == a.t = b.t /\ (IF a.t = "object" THEN a.shape = b.shape ELSE a.v = b.v)
\* a === b: same type and same value; objects by reference
StrictEquals(a, b) ==
    a.t = b.t /\ a.v = b.v /\ (a.t = "number" => a.shape = b.shape)

valuesMatch(val1, val2) ==
    IF IsNullish(val1) THEN IsNullish(val2)
    ELSE IF IsNullish(val2) THEN FALSE
    ELSE StrictEquals(val1, val2)

(***************************************************************************)
(* Flag details.  A detail is a record                                     *)
(*   [key, name, hasEnvironments, environments, hasVariations, variations] *)
(* where environments maps environment keys to [on, fallthrough,           *)
(* offVariation] (both indexes JavaScript values) and variations is a      *)
(* sequence of [value, name].                                              *)
(***************************************************************************)
NoDetail == [absent |-> TRUE]
HasDetail(d) == d # NoDetail

NoName == "undefined"
ProdError == [value |-> JSStr(0), error |-> TRUE, isOn |-> Undefined,
              variationIndex |-> Undefined, variationName |-> NoName]

\* arr[idx] of JavaScript for a number index: undefined outside 0..length-1
\* and for a number that is not an integer
IndexResolves(variations, idx) ==
    idx.t = "number" /\ idx.shape = 0 /\ idx.v >= 0 /\ idx.v < Len(variations)

\* variations[variationIndex]
NoVariation == [absent |-> TRUE]
ArrayGetClamped(variations, idx) ==
    IF variations = << >> \/ idx.t # "number" THEN NoVariation
    ELSE IF idx.v < 0 THEN variations[1]
    ELSE IF idx.v >= Len(variations) THEN variations[Len(variations)]
    ELSE variations[idx.v + 1]
ArrayGet(variations, idx) ==
    IF IndexResolves(variations, idx) THEN variations[idx.v + 1] ELSE NoVariation

\* the index that governs the environment's default
governingIndexIgnoringOn(e) == e.fallthrough
governingIndex(e) ==
    IF e.on = JSBool(TRUE) THEN e.fallthrough ELSE e.offVariation

getEnvironmentDefaultValue(detail, env) ==
    IF ~HasDetail(detail) \/ ~detail.hasEnvironments
       \/ env \notin DOMAIN detail.environments
    THEN ProdError
    ELSE LET e == detail.environments[env]
             variations == IF detail.hasVariations THEN detail.variations ELSE << >>
             variationIndex == governingIndex(e)
             variation == ArrayGet(variations, variationIndex)
         IN  IF IsNullish(variationIndex) THEN ProdError
             ELSE IF variation = NoVariation THEN ProdError
             ELSE [value |-> variation.value,
                   error |-> FALSE,
                   isOn |-> e.on,
                   variationIndex |-> variationIndex,
                   variationName |-> variation.name]

\* prodResult of calculateSummary / handleExport / getFilteredResults
prodResultOf(o, env) ==
    IF HasDetail(o.detail) THEN getEnvironmentDefaultValue(o.detail, env)
    ELSE ProdError

isFallbackNull(o) == o.flagStatus.default.t = "null" \/ o.flagStatus.default.t = "undefined"

\* the comparison without the `!prodResult.error` guard
hasMismatchNoErrorGuard(o, env) ==
    /\ ~isFallbackNull(o)
    /\ ~valuesMatch(o.flagStatus.default, prodResultOf(o, env).value)

\* hasMismatch of calculateSummary, handleExport and the mismatch filter
hasMismatch(o, env) ==
    /\ ~isFallbackNull(o)
    /\ ~prodResultOf(o, env).error
    /\ ~valuesMatch(o.flagStatus.default, prodResultOf(o, env).value)

\* handleExport's bcpHealth
bcpHealth(o, env) ==
    IF isFallbackNull(o) \/ prodResultOf(o, env).error THEN "Unable to Determine"
    ELSE IF hasMismatch(o, env) THEN "Mismatch"
    ELSE "Match"

(***************************************************************************)
(* The upstream data set.  Flag k of the listing has a status name, a      *)
(* fallback value and (when its detail fetch succeeds) a detail, all fixed  *)
(* functions of k, so that matches, mismatches and indeterminate flags all  *)
(* occur.                                                                   *)
(***************************************************************************)
\* flagStatus.name is any string the upstream sends; "new" is a name other
\* than the three the summary tests for
StatusNames == << "inactive", "launched", "active", "new" >>

CatalogueDefault(k) ==
    CASE k % 4 = 0 -> JSBool(FALSE)
      [] k % 4 = 1 -> JSBool(TRUE)
      [] k % 4 = 2 -> Null
      [] OTHER     -> Undefined

CatalogueStatus(k, href) ==
    [key |-> k, href |-> href, name |-> StatusNames[(k % 4) + 1],
     default |-> CatalogueDefault(k)]

BoolVariations == << [value |-> JSBool(TRUE), name |-> "on"],
                     [value |-> JSBool(FALSE), name |-> "off"] >>

CatalogueDetail(k) ==
    [key |-> k, name |-> k, hasEnvironments |-> TRUE,
     environments |-> [e \in {"production"} |->
         [on |-> JSBool(k % 3 = 0),
          fallthrough |-> IF k % 4 = 0 THEN Undefined ELSE JSNum(0),
          offVariation |-> JSNum(1)]],
     hasVariations |-> TRUE, variations |-> BoolVariations]

(***************************************************************************)
(* Outcomes of fetchFlagDetail: {detail, flagStatus} or {error, flagStatus}.*)
(* NoError stands for an absent (undefined) error member.                   *)
(***************************************************************************)
NoError == "undefined"
NoOutcome == [pending |-> TRUE]
Outcome(fs, d, e) == [flagStatus |-> fs, detail |-> d, error |-> e]
HasError(o) == o.error # NoError

\* error.message of what a failed fetch() throws: a TypeError carries a
\* message; "nomsg" is a rejection whose reason has no message member
MessageOf(r) == IF r = "neterr" THEN "fetch failed" ELSE NoError

\* the upstream's answer to attempt a (1, 2, ...) of the flag at position p
ResponseTo(p, a) == IF a <= behav[p].b.pre THEN "s429" ELSE behav[p].b.kind

(***************************************************************************)
(* The batch loop: POST of app/api/flag-details-batch/route.ts and         *)
(* fetchFlagDetailsBatched of the legacy script.                           *)
(***************************************************************************)
Min(a, b) == IF a < b THEN a ELSE b

\* a slice one item too long
WaveOfWide(i0) == (i0 + 1)..Min(i0 + batchSize + 1, Len(flags))
\* flags.slice(i0, i0 + batchSize), as input positions (1-based)
WaveOf(i0) == (i0 + 1)..Min(i0 + batchSize, Len(flags))

Unissued == [st |-> "unissued", retries |-> 0, attempt |-> 0, out |-> NoOutcome]
Settled(o) == [st |-> "settled", retries |-> 0, attempt |-> 0, out |-> o]

\* fetchFlagDetail up to its first suspension: a flag without a detail URL
\* resolves at once, any other has its first fetch under way
IssueItem(p) ==
    IF ~flags[p].href
    THEN Settled(Outcome(flags[p], NoDetail, "No detail URL found"))
    ELSE [st |-> "fetching", retries |-> retries, attempt |-> 1, out |-> NoOutcome]

IssuedWave(i0) == [p \in DOMAIN item |-> IF p \in WaveOf(i0) THEN IssueItem(p) ELSE item[p]]

\* the positions of the wave that resolved while it was issued, in issue order
ResolvedAtIssue(i0) ==
    SelectSeq([k \in 1..Cardinality(WaveOf(i0)) |-> i0 + k],
              LAMBDA p : ~flags[p].href)

\* the route's fetchFlagDetail without its `if (!response.ok)` branch
RouteAfterNoOkCheck(p, r) ==
    CASE r \in {"ok", "s429", "non2xx"} ->
             Settled(Outcome(flags[p], CatalogueDetail(flags[p].key), NoError))
      [] OTHER -> Settled(Outcome(flags[p], NoDetail, MessageOf(r)))
\* fetchFlagDetail of the route: one plain fetch, no retry
RouteAfter(p, r) ==
    CASE r = "ok" -> Settled(Outcome(flags[p], CatalogueDetail(flags[p].key), NoError))
      [] r \in {"s429", "non2xx"} ->
             Settled(Outcome(flags[p], NoDetail, "Failed to fetch detail"))
      [] OTHER -> Settled(Outcome(flags[p], NoDetail, MessageOf(r)))

\* fetchFlagDetail of the legacy script over fetchWithRateLimit(url, options, retries)
LegacyAfter(p, r) ==
    CASE r = "ok" -> Settled(Outcome(flags[p], CatalogueDetail(flags[p].key), NoError))
      [] r = "non2xx" -> Settled(Outcome(flags[p], NoDetail, "Failed to fetch detail"))
      [] r = "s429" ->
             IF item[p].retries > 0
             THEN [item[p] EXCEPT !.st = "sleeping", !.retries = @ - 1]
             ELSE Settled(Outcome(flags[p], NoDetail,
                          "Rate limit exceeded. Please wait and try again."))
      [] r = "neterr" ->
             IF item[p].retries > 0
             THEN [item[p] EXCEPT !.st = "sleeping", !.retries = @ - 1]
             ELSE Settled(Outcome(flags[p], NoDetail, MessageOf(r)))
      [] OTHER -> Settled(Outcome(flags[p], NoDetail, MessageOf(r)))

AfterResponse(p, r) == IF impl = "next" THEN RouteAfter(p, r) ELSE LegacyAfter(p, r)

Active == { q \in DOMAIN item : item[q].st \in {"fetching", "sleeping"} }

\* which call the network (or the timer) lets move next
CanProgress(p) ==
    \/ arrival = "any"
    \/ arrival = "fifo" /\ \A q \in Active : p <= q
    \/ arrival = "lifo" /\ \A q \in Active : p >= q

\* a wave that goes on as soon as one of its calls has settled (Promise.race)
WaveAnySettled(i0) == \E p \in WaveOf(i0) : item[p].st = "settled"
\* await Promise.all(batchPromises) returns once every call of the wave has settled
WaveDone(i0) == \A p \in WaveOf(i0) : item[p].st = "settled"

\* results collected in the order the calls settled
PromiseAllByCompletion(i0) ==
    [k \in 1..Cardinality(WaveOf(i0)) |->
        IF k <= Len(settleOrder) THEN item[settleOrder[k]].out ELSE NoOutcome]
\* the value of Promise.all: the calls' values in the order of the promises
PromiseAll(i0) == [k \in 1..Cardinality(WaveOf(i0)) |-> item[i0 + k].out]

\* a response arrives for the fetch of position p
Respond(p) ==
    /\ pc = "batch" /\ wave \in {"running", "cooldown"}
    /\ item[p].st = "fetching"
    /\ CanProgress(p)
    /\ LET next == AfterResponse(p, ResponseTo(p, item[p].attempt))
       IN  /\ item' = [item EXCEPT ![p] = next]
           /\ settleOrder' = IF next.st = "settled" /\ p \in WaveOf(i)
                             THEN Append(settleOrder, p) ELSE settleOrder
    /\ UNCHANGED << rateLimitInfo, call, observed, listing, view, progress,
                    impl, flags, behav, arrival, environment, pc, resultsAtSubmit,
                    loading, error, partialResults, results, summary, flagDetails,
                    stats, exported, i, wave, routeResults >>

\* the wait before a retry of fetchWithRateLimit is over: the next attempt goes out
Wake(p) ==
    /\ pc = "batch" /\ wave \in {"running", "cooldown"}
    /\ item[p].st = "sleeping"
    /\ CanProgress(p)
    /\ item' = [item EXCEPT ![p] = [@ EXCEPT !.st = "fetching", !.attempt = @ + 1]]
    /\ UNCHANGED << rateLimitInfo, call, observed, listing, view, progress,
                    impl, flags, behav, arrival, environment, pc, resultsAtSubmit,
                    loading, error, partialResults, results, summary, flagDetails,
                    stats, exported, i, wave, settleOrder, routeResults >>

\* the progress callback of fetchFlagDetailsBatched after the wave at i0:
\* onProgress(Math.min(i + batchSize, flags.length), flags.length)
onProgress(i0, fl) == [current |-> Min(i0 + batchSize, Len(fl)), total |-> Len(fl)]

\* Promise.all has resolved: results.push(...batchResults), then (legacy) the
\* progress callback, then the cooldown or, after the last wave, the return.
\* The loop of the route has no progress callback.
WaveSettled ==
    /\ pc = "batch" /\ wave = "running"
    /\ WaveDone(i)
    /\ routeResults' = routeResults \o PromiseAll(i)
    /\ IF i + batchSize < Len(flags)
       THEN wave' = "cooldown" /\ i' = i
       ELSE wave' = "returned" /\ i' = i + batchSize
    /\ progress' = IF impl = "legacy"
                   THEN Append(progress, onProgress(i, flags)) ELSE progress
    /\ UNCHANGED << rateLimitInfo, call, observed, listing, view,
                    impl, flags, behav, arrival, environment, pc, resultsAtSubmit,
                    loading, error, partialResults, results, summary, flagDetails,
                    stats, exported, item, settleOrder >>

\* the 100 ms between two waves are over: i += batchSize and the next wave goes out
CooldownElapsed ==
    /\ pc = "batch" /\ wave = "cooldown"
    /\ i' = i + batchSize
    /\ item' = IssuedWave(i + batchSize)
    /\ settleOrder' = ResolvedAtIssue(i + batchSize)
    /\ wave' = "running"
    /\ UNCHANGED << rateLimitInfo, call, observed, listing, view, progress,
                    impl, flags, behav, arrival, environment, pc, resultsAtSubmit,
                    loading, error, partialResults, results, summary, flagDetails,
                    stats, exported, routeResults >>

(***************************************************************************)
(* The coordinator: handleSubmit of page.tsx over the API routes, and      *)
(* runHealthCheck of the legacy script.                                    *)
(***************************************************************************)
NoStats == [present |-> FALSE, total |-> 0, successful |-> 0, errors |-> 0]
NoMessage == [kind |-> "none", msg |-> "", errors |-> 0, total |-> 0]
FatalMessage(m) == [kind |-> "fatal", msg |-> m, errors |-> 0, total |-> 0]
\* `Some flags failed to load: ${err.message}. Showing partial results.`
PartialMessage(m) == [kind |-> "partial", msg |-> m, errors |-> 0, total |-> 0]
\* `Warning: ${errors} out of ${total} flags failed to load. ...`
WarningMessage(st) ==
    [kind |-> "warning", msg |-> "", errors |-> st.errors, total |-> st.total]
\* useState('all'), useState(''), useState('name'), useState('asc')
InitialView == [filter |-> "all", searchQuery |-> "", sortBy |-> "name", sortOrder |-> "asc"]
NoSummary == [all |-> 0, launched |-> 0, active |-> 0, inactive |-> 0, mismatches |-> 0]

CountWhere(seq, Test(_)) == Cardinality({ k \in DOMAIN seq : Test(seq[k]) })

\* counts that start from the summary on display instead of from zero
calculateSummaryAccumulating(fl, fd, env) ==
    [all |-> Len(fl),
     launched |-> summary.launched
                    + CountWhere(fd, LAMBDA o : o.flagStatus.name = "launched"),
     active |-> summary.active
                    + CountWhere(fd, LAMBDA o : o.flagStatus.name = "active"),
     inactive |-> summary.inactive
                    + CountWhere(fd, LAMBDA o : o.flagStatus.name = "inactive"),
     mismatches |-> summary.mismatches
                    + CountWhere(fd, LAMBDA o : hasMismatch(o, env))]
calculateSummary(fl, fd, env) ==
    [all |-> Len(fl),
     launched |-> CountWhere(fd, LAMBDA o : o.flagStatus.name = "launched"),
     active |-> CountWhere(fd, LAMBDA o : o.flagStatus.name = "active"),
     inactive |-> CountWhere(fd, LAMBDA o : o.flagStatus.name = "inactive"),
     mismatches |-> CountWhere(fd, LAMBDA o : hasMismatch(o, env))]

\* the body of the batch response: NextResponse.json({ flagDetails: results })
RouteResponse(res) == [flagDetails |-> res, stats |-> NoStats]

\* results shown only when no item failed
OnlyIfAllSucceeded(fd) == IF \E k \in DOMAIN fd : HasError(fd[k]) THEN << >> ELSE fd
\* setResults(flagDetails): every outcome is stored
StoredResults(fd) == fd

\* handleSubmit / runHealthCheck start: the page is reset and the status
\* listing is requested
StartRun ==
    /\ pc' = "listing"
    /\ loading' = TRUE
    /\ error' = NoMessage
    /\ results' = << >>
    /\ resultsAtSubmit' = results
    /\ progress' = IF impl = "next" THEN << [current |-> 0, total |-> 1] >> ELSE << >>
    /\ item' = [p \in DOMAIN item |-> Unissued]
    /\ UNCHANGED << rateLimitInfo, call, observed, listing, view,
                    impl, flags, behav, arrival, environment, partialResults,
                    summary, flagDetails, stats, exported, i, wave,
                    settleOrder, routeResults >>

\* the first check of a freshly loaded page
Submit == pc = "idle" /\ StartRun

\* the form is submitted again after a check has ended
Resubmit == pc = "done" /\ StartRun

\* the catch and finally blocks: page.tsx 373-386, legacy 379-385
Fatal(m) ==
    /\ IF impl = "next" /\ Len(resultsAtSubmit) > 0
       THEN partialResults' = TRUE /\ error' = PartialMessage(m)
       ELSE partialResults' = partialResults /\ error' = FatalMessage(m)
    /\ loading' = FALSE
    /\ pc' = "done"

\* the status listing did not succeed
ListingFails ==
    /\ pc = "listing"
    /\ Fatal("Failed to fetch flag statuses")
    /\ UNCHANGED << rateLimitInfo, call, observed, listing, view, progress,
                    impl, flags, behav, arrival, environment, resultsAtSubmit,
                    results, summary, flagDetails, stats, exported, i, wave, item,
                    settleOrder, routeResults >>

\* no list is taken for empty
NoFlagsFoundNever(fl) == FALSE
\* flags.length === 0
NoFlagsFound(fl) == Len(fl) = 0

\* the status listing returned: an empty list is fatal, any other list goes
\* to the batch fetch, whose first wave is issued
ListingOk ==
    /\ pc = "listing"
    /\ IF NoFlagsFound(flags)
       THEN /\ Fatal("No flags found for this project and environment")
            /\ UNCHANGED << i, wave, item, settleOrder, routeResults >>
       ELSE /\ pc' = "batch"
            /\ i' = 0
            /\ routeResults' = << >>
            /\ item' = IssuedWave(0)
            /\ settleOrder' = ResolvedAtIssue(0)
            /\ wave' = "running"
            /\ UNCHANGED << loading, error, partialResults >>
    /\ UNCHANGED << rateLimitInfo, call, observed, listing, view, progress,
                    impl, flags, behav, arrival, environment, resultsAtSubmit,
                    results, summary, flagDetails, stats, exported >>

\* the batch fetch has returned.  page.tsx 340-364: the response is read, a
\* stats member with errors raises the warning, and the handler waits 300 ms.
\* Legacy 376-377: displayResults runs at once.
BatchReturned ==
    /\ pc = "batch" /\ wave = "returned"
    /\ wave' = "none"
    /\ LET resp == RouteResponse(routeResults)
       IN  /\ flagDetails' = resp.flagDetails
           /\ IF impl = "next"
              THEN /\ stats' = resp.stats
                   /\ IF resp.stats.present /\ resp.stats.errors > 0
                      THEN partialResults' = TRUE /\ error' = WarningMessage(resp.stats)
                      ELSE UNCHANGED << partialResults, error >>
                   /\ progress' = Append(progress, [current |-> Len(flags),
                                                     total |-> Len(flags)])
                   /\ pc' = "analyzing"
                   /\ UNCHANGED << summary, results, loading >>
              ELSE /\ summary' = calculateSummary(flags, resp.flagDetails, environment)
                   /\ results' = StoredResults(resp.flagDetails)
                   /\ loading' = FALSE
                   /\ pc' = "done"
                   /\ UNCHANGED << stats, partialResults, error, progress >>
    /\ UNCHANGED << rateLimitInfo, call, observed, listing, view,
                    impl, flags, behav, arrival, environment, resultsAtSubmit,
                    exported, i, item, settleOrder, routeResults >>

\* the 200 ms interval of handleSubmit fires while the batch request is
\* pending (page.tsx 309-322): the display gets an estimate of ~100 ms per
\* flag from the time elapsed, at most flags.length - 1.  The k-th tick
\* comes 200 * k ms after the start (estimate 2 * k) or late (the cap).
ProgressTick ==
    /\ impl = "next" /\ pc = "batch"
    /\ Len(progress) <= MaxTicks
    /\ \E est \in { Min(2 * Len(progress), Len(flags) - 1), Len(flags) - 1 } :
          progress' = Append(progress, [current |-> est, total |-> Len(flags)])
    /\ UNCHANGED << rateLimitInfo, call, observed, listing, view,
                    impl, flags, behav, arrival, environment, pc, resultsAtSubmit,
                    loading, error, partialResults, results, summary, flagDetails,
                    stats, exported, i, wave, item, settleOrder, routeResults >>

\* page.tsx 369-371 and the finally block: calculateSummary, setResults
Analyze ==
    /\ pc = "analyzing"
    /\ summary' = calculateSummary(flags, flagDetails, environment)
    /\ results' = StoredResults(flagDetails)
    /\ loading' = FALSE
    /\ pc' = "done"
    /\ UNCHANGED << rateLimitInfo, call, observed, listing, view, progress,
                    impl, flags, behav, arrival, environment, resultsAtSubmit,
                    error, partialResults, flagDetails, stats, exported, i, wave,
                    item, settleOrder, routeResults >>

(***************************************************************************)
(* Numbers of the rate limiter: null, a number, NaN or Infinity.            *)
(***************************************************************************)
RLNull == [k |-> "null", n |-> 0]
RLNum(n) == [k |-> "num", n |-> n]
RLNaN == [k |-> "nan", n |-> 0]
Infinity == [k |-> "inf", n |-> 0]

Max(a, b) == IF a > b THEN a ELSE b

\* Math.min over two numbers
MathMin(a, b) ==
    IF a.k = "nan" \/ b.k = "nan" THEN RLNaN
    ELSE IF a.k = "inf" THEN b
    ELSE IF b.k = "inf" THEN a
    ELSE IF a.n < b.n THEN a ELSE b

isFinite(x) == x.k = "num"

(***************************************************************************)
(* Response headers: a function from (lower-case) header names to header    *)
(* values.  A value is absent, the empty string, a string of decimal        *)
(* digits or an HTTP date.  Headers.get is case-insensitive, so the casing  *)
(* variants of a name read the same header.                                 *)
(***************************************************************************)
NoHeader == [present |-> FALSE, kind |-> "none", n |-> 0]
HdrEmpty == [present |-> TRUE, kind |-> "empty", n |-> 0]
HdrInt(n) == [present |-> TRUE, kind |-> "digits", n |-> n]
HdrDate == [present |-> TRUE, kind |-> "date", n |-> 0]

HeaderNames == { "x-ratelimit-global-remaining", "ratelimit-global-remaining",
                 "x-ratelimit-route-remaining", "ratelimit-route-remaining",
                 "x-ratelimit-reset", "ratelimit-reset", "retry-after" }

GlobalRemainingNames == << "x-ratelimit-global-remaining", "x-ratelimit-global-remaining",
                           "x-ratelimit-global-remaining", "ratelimit-global-remaining" >>
RouteRemainingNames == << "x-ratelimit-route-remaining", "x-ratelimit-route-remaining",
                          "x-ratelimit-route-remaining", "ratelimit-route-remaining" >>
ResetNames == << "x-ratelimit-reset", "x-ratelimit-reset", "x-ratelimit-reset",
                 "ratelimit-reset" >>
RetryAfterNames == << "retry-after", "retry-after" >>

\* a string in a condition: null and '' are falsy
Truthy(h) == h.present /\ h.kind # "empty"

\* parseInt of a header string
parseInt(h) == IF h.kind = "digits" THEN RLNum(h.n) ELSE RLNaN

\* the first name whose value is truthy, else null
getHeader(headers, names) ==
    LET hits == { k \in DOMAIN names : Truthy(headers[names[k]]) }
    IN  IF hits = {} THEN NoHeader
        ELSE headers[names[CHOOSE k \in hits : \A j \in hits : k <= j]]

\* value ? parseInt(value) : null
FieldOf(h) == IF Truthy(h) THEN parseInt(h) ELSE RLNull

NoRateLimitInfo ==
    [globalRemaining |-> RLNull, routeRemaining |-> RLNull,
     resetTime |-> RLNull, retryAfter |-> RLNull]

\* the new state keeps every field the response does not carry
updateFromHeadersMerging(info, headers) ==
    LET new(old, names) == IF Truthy(getHeader(headers, names))
                           THEN parseInt(getHeader(headers, names)) ELSE old
    IN  [globalRemaining |-> new(info.globalRemaining, GlobalRemainingNames),
         routeRemaining |-> new(info.routeRemaining, RouteRemainingNames),
         resetTime |-> new(info.resetTime, ResetNames),
         retryAfter |-> new(info.retryAfter, RetryAfterNames)]

\* RateLimiter.updateFromHeaders: the state is replaced as a whole
updateFromHeaders(info, headers) ==
    [globalRemaining |-> FieldOf(getHeader(headers, GlobalRemainingNames)),
     routeRemaining |-> FieldOf(getHeader(headers, RouteRemainingNames)),
     resetTime |-> FieldOf(getHeader(headers, ResetNames)),
     retryAfter |-> FieldOf(getHeader(headers, RetryAfterNames))]

\* RateLimitManager.updateFromHeaders of the legacy script: no retryAfter
LegacyUpdateFromHeaders(info, headers) ==
    [globalRemaining |-> FieldOf(getHeader(headers, GlobalRemainingNames)),
     routeRemaining |-> FieldOf(getHeader(headers, RouteRemainingNames)),
     resetTime |-> FieldOf(getHeader(headers, ResetNames)),
     retryAfter |-> RLNull]

\* the lower of the two remaining counts, Infinity for a null one
Lowest(info) ==
    MathMin(IF info.globalRemaining # RLNull THEN info.globalRemaining ELSE Infinity,
            IF info.routeRemaining # RLNull THEN info.routeRemaining ELSE Infinity)

\* throttling on the global count alone
shouldThrottleGlobalOnly(info, threshold) ==
    info.globalRemaining.k = "num" /\ info.globalRemaining.n < threshold
\* RateLimiter.shouldThrottle(threshold) and RateLimitManager.shouldThrottle()
shouldThrottle(info, threshold) ==
    IF info.globalRemaining = RLNull /\ info.routeRemaining = RLNull THEN FALSE
    ELSE isFinite(Lowest(info)) /\ Lowest(info).n < threshold

threshold == 10
maxWait == 15000

NoThrottle == [throttled |-> FALSE, waitTime |-> RLNum(0), slept |-> 0]

\* the wait computed from resetTime first and from retryAfter second
waitIfNeededResetFirst(info, now) ==
    IF ~shouldThrottle(info, threshold) THEN NoThrottle
    ELSE LET waitTime ==
                 IF info.resetTime # RLNull
                 THEN (IF info.resetTime.k = "num"
                       THEN RLNum(Max(0, info.resetTime.n - now + 100))
                       ELSE RLNaN)
                 ELSE IF info.retryAfter # RLNull
                 THEN (IF info.retryAfter.k = "num" THEN RLNum(info.retryAfter.n * 1000)
                       ELSE RLNaN)
                 ELSE RLNum(0)
         IN  [throttled |-> TRUE, waitTime |-> waitTime,
              slept |-> IF waitTime.k = "num" /\ waitTime.n > 0 /\ waitTime.n < maxWait
                        THEN waitTime.n ELSE 0]
\* RateLimiter.waitIfNeeded at time now: whether it throttles, the computed
\* wait and the time the caller is suspended
waitIfNeeded(info, now) ==
    IF ~shouldThrottle(info, threshold) THEN NoThrottle
    ELSE LET waitTime ==
                 IF info.retryAfter # RLNull
                 THEN (IF info.retryAfter.k = "num" THEN RLNum(info.retryAfter.n * 1000)
                       ELSE RLNaN)
                 ELSE IF info.resetTime # RLNull
                 THEN (IF info.resetTime.k = "num"
                       THEN RLNum(Max(0, info.resetTime.n - now + 100))
                       ELSE RLNaN)
                 ELSE RLNum(0)
         IN  [throttled |-> TRUE, waitTime |-> waitTime,
              slept |-> IF waitTime.k = "num" /\ waitTime.n > 0 /\ waitTime.n < maxWait
                        THEN waitTime.n ELSE 0]

\* RateLimitManager.waitIfNeeded of the legacy script: only resetTime counts
LegacyWaitIfNeeded(info, now) ==
    IF ~(shouldThrottle(info, threshold)
         /\ info.resetTime.k = "num" /\ info.resetTime.n # 0)
    THEN [NoThrottle EXCEPT !.throttled = shouldThrottle(info, threshold)]
    ELSE LET waitTime == Max(0, info.resetTime.n - now + 100)
         IN  [throttled |-> TRUE, waitTime |-> RLNum(waitTime),
              slept |-> IF waitTime > 0 /\ waitTime < maxWait THEN waitTime ELSE 0]

(***************************************************************************)
(* fetchWithRetry (utils/retry.ts) as the API routes call it, and           *)
(* fetchWithRateLimit of the legacy script.                                 *)
(***************************************************************************)
maxDelay == 30000
backoffMultiplier == 2
retryableStatuses == { 429, 500, 502, 503, 504 }
retryableErrors == { "ECONNRESET", "ETIMEDOUT", "ENOTFOUND" }

\* the retry options of the two routes: flag-statuses and flag-detail
CallSites == { [maxRetries |-> 3, initialDelay |-> 1000],
               [maxRetries |-> 2, initialDelay |-> 500] }

\* fetchWithRetry takes any RetryOptions: a caller whose delays reach maxDelay
RetryOptions == CallSites \cup { [maxRetries |-> 2, initialDelay |-> 16000] }

RECURSIVE Pow(_, _)
Pow(b, e) == IF e = 0 THEN 1 ELSE b * Pow(b, e - 1)

\* the exponential delay without the cap
BackoffDelayUncapped(config, attempt) ==
    config.initialDelay * Pow(backoffMultiplier, attempt)
\* Math.min(initialDelay * Math.pow(backoffMultiplier, attempt), maxDelay)
BackoffDelay(config, attempt) ==
    Min(config.initialDelay * Pow(backoffMultiplier, attempt), maxDelay)

\* what fetch() settles with: a response, or a rejection with an error
NoCode == "undefined"
Response(status, headers) ==
    [type |-> "response", status |-> status, headers |-> headers,
     code |-> NoCode, name |-> ""]
Rejection(name, code) ==
    [type |-> "error", status |-> 0, headers |-> [h \in HeaderNames |-> NoHeader],
     code |-> code, name |-> name]
NoReply == Rejection("", NoCode)

Ok(reply) == reply.type = "response" /\ reply.status \in 200..299

\* setTimeout(resolve, ms): a NaN delay is a delay of 0
TimerDelay(x) == IF x.k = "num" THEN x.n ELSE 0

\* the timer of fetchWithRetry after a retryable status
StatusWait(config, attempt, reply) ==
    LET retryAfter == reply.headers["retry-after"]
        waitTime == IF Truthy(retryAfter)
                    THEN (IF parseInt(retryAfter).k = "num"
                          THEN RLNum(parseInt(retryAfter).n * 1000) ELSE RLNaN)
                    ELSE RLNum(BackoffDelay(config, attempt))
    IN  TimerDelay(MathMin(waitTime, RLNum(maxDelay)))

\* error.code && config.retryableErrors.includes(error.code)
isRetryable(err) == err.code # NoCode /\ err.code \in retryableErrors

NoCall ==
    [pc |-> "idle", config |-> [maxRetries |-> 0, initialDelay |-> 0],
     attempt |-> 0, retries |-> 0, fetches |-> 0, statusRetries |-> 0,
     checks |-> 0, served |-> 0,
     throttle |-> NoThrottle, wait |-> 0, last |-> NoReply,
     outcome |-> "none"]

\* a retryable status on the last attempt is thrown instead of returned
fetchWithRetryThrowing(c, reply) ==
    IF reply.type = "response"
    THEN IF Ok(reply) THEN [step |-> "return", wait |-> 0]
         ELSE IF reply.status \in retryableStatuses
         THEN IF c.attempt = c.config.maxRetries THEN [step |-> "throw", wait |-> 0]
              ELSE [step |-> "wait", wait |-> StatusWait(c.config, c.attempt, reply)]
         ELSE [step |-> "return", wait |-> 0]
    ELSE IF ~isRetryable(reply) \/ c.attempt = c.config.maxRetries
         THEN [step |-> "throw", wait |-> 0]
         ELSE [step |-> "wait", wait |-> BackoffDelay(c.config, c.attempt)]
\* every non-2xx status is retried
fetchWithRetryAnyStatus(c, reply) ==
    IF reply.type = "response"
    THEN IF Ok(reply) THEN [step |-> "return", wait |-> 0]
         ELSE IF c.attempt = c.config.maxRetries THEN [step |-> "return", wait |-> 0]
         ELSE [step |-> "wait", wait |-> StatusWait(c.config, c.attempt, reply)]
    ELSE IF ~isRetryable(reply) \/ c.attempt = c.config.maxRetries
         THEN [step |-> "throw", wait |-> 0]
         ELSE [step |-> "wait", wait |-> BackoffDelay(c.config, c.attempt)]
\* the loop runs while attempt <= maxRetries + 1
fetchWithRetryOneMore(c, reply) ==
    IF reply.type = "response"
    THEN IF Ok(reply) THEN [step |-> "return", wait |-> 0]
         ELSE IF reply.status \in retryableStatuses
         THEN IF c.attempt = c.config.maxRetries + 1 THEN [step |-> "return", wait |-> 0]
              ELSE [step |-> "wait", wait |-> StatusWait(c.config, c.attempt, reply)]
         ELSE [step |-> "return", wait |-> 0]
    ELSE IF ~isRetryable(reply) \/ c.attempt = c.config.maxRetries + 1
         THEN [step |-> "throw", wait |-> 0]
         ELSE [step |-> "wait", wait |-> BackoffDelay(c.config, c.attempt)]
\* one pass of the loop body of fetchWithRetry on the reply of its fetch:
\* "return", "throw", or "wait" with the timer set
fetchWithRetry(c, reply) ==
    IF reply.type = "response"
    THEN IF Ok(reply) THEN [step |-> "return", wait |-> 0]
         ELSE IF reply.status \in retryableStatuses
         THEN IF c.attempt = c.config.maxRetries THEN [step |-> "return", wait |-> 0]
              ELSE [step |-> "wait", wait |-> StatusWait(c.config, c.attempt, reply)]
         ELSE [step |-> "return", wait |-> 0]
    ELSE IF ~isRetryable(reply) \/ c.attempt = c.config.maxRetries
         THEN [step |-> "throw", wait |-> 0]
         ELSE [step |-> "wait", wait |-> BackoffDelay(c.config, c.attempt)]

\* parseInt(response.headers.get('Retry-After') || 2) * 1000
LegacyRetryAfterWait(reply) ==
    LET retryAfter == reply.headers["retry-after"]
    IN  IF Truthy(retryAfter)
        THEN TimerDelay(IF parseInt(retryAfter).k = "num"
                        THEN RLNum(parseInt(retryAfter).n * 1000) ELSE RLNaN)
        ELSE 2 * 1000

\* one pass of fetchWithRateLimit(url, options, retries) on the reply
fetchWithRateLimit(c, reply) ==
    IF reply.type = "response"
    THEN IF reply.status = 429
         THEN IF c.retries > 0
              THEN [step |-> "wait", wait |-> LegacyRetryAfterWait(reply)]
              ELSE [step |-> "throw", wait |-> 0]
         ELSE [step |-> "return", wait |-> 0]
    ELSE IF c.retries > 0 /\ reply.name = "TypeError"
         THEN [step |-> "wait", wait |-> (4 - c.retries) * 1000]
         ELSE [step |-> "throw", wait |-> 0]

(***************************************************************************)
(* An outbound call of a route handler (GET flag-statuses, POST             *)
(* flag-detail) or of the legacy script, one call at a time.                *)
(***************************************************************************)
\* how many calls are made one after the other
MaxCalls == 2

\* the values Date.now() returns, and X-Ratelimit-Reset values before,
\* shortly after and long after them
Times == { 100000, 106000 }
ResetValues == { 95000, 105000, 130000 }

Hdrs(g, g2, r, t, ra) ==
    [h \in HeaderNames |->
        CASE h = "x-ratelimit-global-remaining" -> g
          [] h = "ratelimit-global-remaining" -> g2
          [] h = "x-ratelimit-route-remaining" -> r
          [] h = "x-ratelimit-reset" -> t
          [] h = "retry-after" -> ra
          [] OTHER -> NoHeader]

NoHeaders == Hdrs(NoHeader, NoHeader, NoHeader, NoHeader, NoHeader)

\* nothing observed yet: the state of a new RateLimiter
NoObservation == [headers |-> NoHeaders, known |-> FALSE]

HeaderSets ==
    { NoHeaders }
    \cup { Hdrs(g, NoHeader, r, NoHeader, NoHeader) :
               g \in { NoHeader, HdrInt(9), HdrInt(10) },
               r \in { NoHeader, HdrEmpty, HdrInt(0), HdrInt(50) } }
    \cup { Hdrs(HdrInt(5), NoHeader, NoHeader, HdrInt(t), NoHeader) : t \in ResetValues }
    \cup { Hdrs(NoHeader, NoHeader, NoHeader, HdrInt(130000), ra) :
               ra \in { HdrInt(1), HdrInt(20), HdrInt(60), HdrDate } }
    \cup { Hdrs(HdrInt(5), NoHeader, NoHeader, HdrInt(130000), HdrInt(20)) }
    \cup { Hdrs(g, HdrInt(5), NoHeader, NoHeader, NoHeader) : g \in { NoHeader, HdrInt(50) } }

\* the headers of the responses to concurrent callers: none, remaining
\* counts alone, a reset time, everything
ObservedHeaderSets ==
    { NoHeaders,
      Hdrs(HdrInt(9), NoHeader, HdrInt(50), NoHeader, NoHeader),
      Hdrs(NoHeader, NoHeader, NoHeader, HdrInt(105000), NoHeader),
      Hdrs(HdrInt(5), NoHeader, NoHeader, HdrInt(130000), HdrInt(20)) }

\* the headers of the answers that are not the usual ones (404, 503)
FewHeaderSets ==
    { NoHeaders,
      Hdrs(HdrInt(5), NoHeader, NoHeader, HdrInt(130000), HdrInt(20)) }

Statuses == { 200, 404, 429, 503 }

Rejections ==
    { Rejection("Error", "ECONNRESET"), Rejection("Error", "ETIMEDOUT"),
      Rejection("Error", "ECONNREFUSED"), Rejection("TypeError", NoCode),
      Rejection("AbortError", NoCode) }

Replies ==
    { Response(st, hs) : st \in { 200, 429 }, hs \in HeaderSets }
    \cup { Response(st, hs) : st \in Statuses \ { 200, 429 }, hs \in FewHeaderSets }
    \cup Rejections

pageVars == << flags, behav, arrival, environment, pc, resultsAtSubmit,
               loading, error, partialResults, results, summary, flagDetails,
               stats, exported, i, wave, item, settleOrder, routeResults, progress,
               listing, view >>

\* the handler up to its fetch: await rateLimiter.waitIfNeeded(), then
\* fetchWithRetry (fetchWithRateLimit) is entered
StartCall ==
    /\ call.pc = "idle" /\ call.served < MaxCalls
    /\ \E site \in (IF impl = "next" THEN RetryOptions ELSE { NoCall.config }),
          now \in Times :
          call' = [NoCall EXCEPT
                      !.pc = "fetch", !.config = site, !.retries = retries,
                      !.checks = 1, !.served = call.served,
                      !.throttle = IF impl = "next"
                                   THEN waitIfNeeded(rateLimitInfo, now)
                                   ELSE LegacyWaitIfNeeded(rateLimitInfo, now)]
    /\ UNCHANGED << rateLimitInfo, observed, impl, pageVars >>

\* the fetch of the current attempt settles with a reply
FetchSettles ==
    /\ call.pc = "fetch"
    /\ \E reply \in Replies :
          LET c == [call EXCEPT
                       !.fetches = @ + 1, !.last = reply,
                       !.statusRetries =
                           IF reply.type = "response"
                              /\ reply.status \in retryableStatuses
                           THEN @ + 1 ELSE @]
              r == IF impl = "next" THEN fetchWithRetry(c, reply)
                   ELSE fetchWithRateLimit(c, reply)
          IN  /\ rateLimitInfo' =
                    IF impl = "next"
                    THEN (IF r.step = "return"
                          THEN updateFromHeaders(rateLimitInfo, reply.headers)
                          ELSE rateLimitInfo)
                    ELSE (IF reply.type = "response"
                          THEN LegacyUpdateFromHeaders(rateLimitInfo, reply.headers)
                          ELSE rateLimitInfo)
              /\ observed' =
                    IF (impl = "next" /\ r.step = "return")
                       \/ (impl = "legacy" /\ reply.type = "response")
                    THEN [headers |-> reply.headers, known |-> rateLimitInfo # NoRateLimitInfo]
                    ELSE observed
              /\ call' =
                    CASE r.step = "wait" -> [c EXCEPT !.pc = "wait", !.wait = r.wait]
                      [] r.step = "return" ->
                             [c EXCEPT !.pc = "idle", !.outcome = "returned",
                                       !.served = @ + 1]
                      [] OTHER ->
                             [c EXCEPT !.pc = "idle", !.outcome = "thrown",
                                       !.served = @ + 1]
    /\ UNCHANGED << impl, pageVars >>

\* the timer before the next attempt fires: the loop of fetchWithRetry goes
\* on; fetchWithRateLimit calls itself and so checks the quota again
RetryTimerFires ==
    /\ call.pc = "wait"
    /\ IF impl = "next"
       THEN call' = [call EXCEPT !.pc = "fetch", !.attempt = @ + 1]
       ELSE \E now \in Times :
               call' = [call EXCEPT
                           !.pc = "fetch", !.attempt = @ + 1, !.retries = @ - 1,
                           !.checks = @ + 1,
                           !.throttle = LegacyWaitIfNeeded(rateLimitInfo, now)]
    /\ UNCHANGED << rateLimitInfo, observed, impl, pageVars >>

\* the response of a concurrent caller arrives at any point of this call
\* (the rateLimiter is one object shared by all requests, and the legacy
\* script runs a wave of fetchWithRateLimit calls at once); the update runs
\* to its end without an await, so it is one step
ConcurrentObserve ==
    /\ \E hs \in ObservedHeaderSets :
          /\ rateLimitInfo' = IF impl = "next"
                              THEN updateFromHeaders(rateLimitInfo, hs)
                              ELSE LegacyUpdateFromHeaders(rateLimitInfo, hs)
          /\ observed' = [headers |-> hs, known |-> rateLimitInfo # NoRateLimitInfo]
    /\ UNCHANGED << call, impl, pageVars >>

(***************************************************************************)
(* The project listing: GET /api/projects pages through the upstream        *)
(* projects with limit 20, and fetchAndPopulateProjects of the legacy       *)
(* script does the same in the browser.  Projects are numbered 1..n; the    *)
(* upstream answers a page request with the projects at that offset and     *)
(* with totalCount, or without it.                                          *)
(***************************************************************************)
limit == 20
\* how many listings are made one after the other
MaxListings == 2

\* how many projects the upstream has
ProjectCounts == { 0, 1, 20, 21, 41 }

\* data.totalCount: a number, or undefined
NoCount == [k |-> "undefined", n |-> 0]
Count(n) == [k |-> "num", n |-> n]

\* the items of the page at an offset
PageItems(n, offset) ==
    [k \in 1..Max(0, Min(limit, n - offset)) |-> offset + k]

NoListing ==
    [pc |-> "idle", n |-> 0, reported |-> NoCount, offset |-> 0,
     totalCount |-> 0, allProjects |-> << >>, requests |-> << >>,
     ok |-> FALSE, projects |-> << >>, before |-> << >>, listings |-> 0]

\* the loop goes on at offset = totalCount too
hasMoreInclusive(offset, totalCount) ==
    totalCount.k = "num" /\ offset <= totalCount.n
\* hasMore = offset < totalCount (false when totalCount is undefined)
hasMore(offset, totalCount) ==
    totalCount.k = "num" /\ offset < totalCount.n

\* the listing starts: offset 0, and the request of the first page is sent
StartListing ==
    /\ listing.pc \in {"idle", "done", "failed"}
    /\ listing.listings < MaxListings
    /\ \E n \in ProjectCounts, reported \in {"count", "none"} :
          listing' = [NoListing EXCEPT
                         !.pc = "request", !.n = n,
                         !.reported = IF reported = "count" THEN Count(n) ELSE NoCount,
                         !.requests = << 0 >>,
                         !.projects = IF impl = "legacy" THEN listing.projects ELSE << >>,
                         !.before = IF impl = "legacy" THEN listing.projects ELSE << >>,
                         !.listings = listing.listings + 1]
    /\ UNCHANGED << rateLimitInfo, call, observed, view, progress, impl, flags, behav,
                    arrival, environment, pc, resultsAtSubmit, loading, error,
                    partialResults, results, summary, flagDetails, stats, exported,
                    i, wave, item, settleOrder, routeResults >>

\* the page at the current offset arrives with a 2xx status
PageArrives ==
    /\ listing.pc = "request"
    /\ LET all == listing.allProjects \o PageItems(listing.n, listing.offset)
           \* route: totalCount is taken from the first response that has one
           totalCount == IF impl = "next"
                         THEN (IF listing.totalCount = 0
                               THEN (IF listing.reported.k = "num"
                                     THEN listing.reported.n ELSE 0)
                               ELSE listing.totalCount)
                         ELSE 0
           offset == listing.offset + limit
           more == IF impl = "next" THEN hasMore(offset, Count(totalCount))
                   ELSE hasMore(offset, listing.reported)
       IN  listing' = [listing EXCEPT
                          !.allProjects = all, !.totalCount = totalCount,
                          !.offset = offset,
                          !.pc = IF more THEN "request" ELSE "done",
                          !.requests = IF more THEN Append(@, offset) ELSE @,
                          !.ok = ~more,
                          !.projects = IF more THEN @ ELSE all]
    /\ UNCHANGED << rateLimitInfo, call, observed, view, progress, impl, flags, behav,
                    arrival, environment, pc, resultsAtSubmit, loading, error,
                    partialResults, results, summary, flagDetails, stats, exported,
                    i, wave, item, settleOrder, routeResults >>

\* the page request ends with a non-2xx status or fetch throws: the route
\* answers with an error, the script leaves projectsData as it was
PageFails ==
    /\ listing.pc = "request"
    /\ listing' = [listing EXCEPT !.pc = "failed", !.ok = FALSE]
    /\ UNCHANGED << rateLimitInfo, call, observed, view, progress, impl, flags, behav,
                    arrival, environment, pc, resultsAtSubmit, loading, error,
                    partialResults, results, summary, flagDetails, stats, exported,
                    i, wave, item, settleOrder, routeResults >>

(***************************************************************************)
(* The specification of one health check run.                               *)
(***************************************************************************)
Ok0 == [kind |-> "ok", pre |-> 0]
Behaviours ==
    { [kind |-> "ok", pre |-> q] : q \in 0..MaxPre }
    \cup { [kind |-> k, pre |-> 0] : k \in {"non2xx", "neterr", "nomsg"} }
ItemWorlds ==
    { [href |-> TRUE, b |-> b] : b \in Behaviours } \cup { [href |-> FALSE, b |-> Ok0] }
PlainOk == [href |-> TRUE, b |-> Ok0]

Lengths == (0..MaxAny) \cup (batchSize..MaxFlags)

\* every combination for short lists; for longer lists all items alike, or
\* all plain except one
Worlds(n) ==
    IF n <= MaxFree THEN [1..n -> ItemWorlds]
    ELSE { [p \in 1..n |-> w] : w \in ItemWorlds }
         \cup { [p \in 1..n |-> IF p = d THEN w ELSE PlainOk] :
                    d \in 1..n, w \in ItemWorlds }

Arrivals(n) == IF n <= MaxAny THEN {"any"} ELSE {"fifo", "lifo"}

Init ==
    /\ impl \in {"next", "legacy"}
    /\ \E n \in Lengths :
          /\ behav \in Worlds(n)
          /\ flags = [p \in 1..n |-> CatalogueStatus(p, behav[p].href)]
          /\ arrival \in Arrivals(n)
          /\ item = [p \in 1..n |-> Unissued]
    /\ environment = "production"
    /\ pc = "idle"
    /\ resultsAtSubmit = << >>
    /\ loading = FALSE
    /\ error = NoMessage
    /\ partialResults = FALSE
    /\ results = << >>
    /\ summary = NoSummary
    /\ flagDetails = << >>
    /\ stats = NoStats
    /\ exported = << >>
    /\ i = 0
    /\ wave = "none"
    /\ settleOrder = << >>
    /\ routeResults = << >>
    /\ rateLimitInfo = NoRateLimitInfo
    /\ observed = NoObservation
    /\ listing = NoListing
    /\ view = InitialView
    /\ call = NoCall
    /\ progress = << >>

Next ==
    \/ Submit
    \/ ListingFails
    \/ ListingOk
    \/ \E p \in DOMAIN item : Respond(p)
    \/ \E p \in DOMAIN item : Wake(p)
    \/ WaveSettled
    \/ CooldownElapsed
    \/ BatchReturned
    \/ Analyze

Spec == Init /\ [][Next]_vars

(***************************************************************************)
(* Properties of the batch fetch and the coordinator.                       *)
(***************************************************************************)
N == Len(flags)
WaveIndex(p) == (p - 1) \div batchSize
Fetching == { p \in DOMAIN item : item[p].st = "fetching" }

\* C1: the batch fetch returns its outcomes in input order: the k-th outcome
\* carries the k-th input flag status, whatever the order of completion.
C1_OutputInInputOrder ==
    /\ \A k \in DOMAIN routeResults :
          /\ k \in DOMAIN flags
          /\ routeResults[k] # NoOutcome
          /\ routeResults[k].flagStatus = flags[k]
    /\ wave = "returned" => Len(routeResults) = N

\* a two-wave run has returned, and the calls of its last wave settled in
\* the reverse of the input order
C1_Witness ==
    /\ wave = "returned"
    /\ N > batchSize
    /\ Len(settleOrder) >= 2
    /\ settleOrder[1] > settleOrder[2]

\* what the upstream data makes of the fetch of position p
FirstFinal(p) == ResponseTo(p, 1)
FailsByCause(p) ==
    \/ ~flags[p].href
    \/ /\ flags[p].href
       /\ IF impl = "next" THEN FirstFinal(p) \in {"s429", "non2xx", "neterr"}
          ELSE \/ behav[p].b.kind \in {"non2xx", "neterr"}
               \/ behav[p].b.pre > retries
Succeeds(p) ==
    /\ flags[p].href
    /\ IF impl = "next" THEN FirstFinal(p) = "ok"
       ELSE behav[p].b.kind = "ok" /\ behav[p].b.pre <= retries

BatchStep ==
    \/ \E p \in DOMAIN item : Respond(p)
    \/ \E p \in DOMAIN item : Wake(p)
    \/ WaveSettled
    \/ CooldownElapsed
    \/ BatchReturned

C3_ExactlyOneOfDetailAndError ==
    \A p \in DOMAIN item :
        item[p].st = "settled" =>
            (HasDetail(item[p].out.detail) /\ ~HasError(item[p].out))
            \/ (~HasDetail(item[p].out.detail) /\ HasError(item[p].out))

\* C4: no fetch of a later wave is issued before every fetch of the earlier
\* waves has settled.
C4_WavesDoNotOverlap ==
    \A p, q \in DOMAIN item :
        (WaveIndex(p) < WaveIndex(q) /\ item[q].st # "unissued")
            => item[p].st = "settled"

\* a fetch of the second wave is in flight
C4_Witness == \E q \in DOMAIN item : WaveIndex(q) = 1 /\ item[q].st = "fetching"

\* C5: at most batchSize = 15 detail fetches are in flight; the waves are the
\* consecutive slices of 15 positions, and the calls of a wave are all issued
\* together, before the wave is awaited.
C5_AtMostBatchSizeInFlight ==
    /\ Cardinality(Fetching) <= batchSize
    /\ batchSize = 15
    /\ \A p, q \in DOMAIN item :
          WaveIndex(p) = WaveIndex(q) =>
              (item[p].st = "unissued" <=> item[q].st = "unissued")
    /\ pc = "batch" /\ wave = "running" =>
          \A p \in DOMAIN item :
              item[p].st # "unissued" <=> p <= Min(i + batchSize, N)

\* a full wave of 15 fetches is in flight in a list of more than 15 flags
C5_Witness == Cardinality(Fetching) = batchSize /\ N > batchSize

\* C6 (as claimed): in a wave of 15 items of which some first get 429
\* responses, within the retry budget, and then a success, the batch returns
\* 15 outcomes and none has an error.
C6_RetriedItemsSucceed ==
    ( /\ wave = "returned"
      /\ N = batchSize
      /\ \A p \in 1..N :
            flags[p].href /\ behav[p].b.kind = "ok" /\ behav[p].b.pre <= retries )
    => /\ Len(routeResults) = batchSize
       /\ \A p \in 1..N : ~HasError(routeResults[p])

FailedCount == Cardinality({ k \in DOMAIN flagDetails : HasError(flagDetails[k]) })

\* C7 (as claimed): when k >= 1 item fetches of a batch failed, the batch
\* result carries stats with failed = k and total = M, and the coordinator
\* shows the "k out of M flags failed to load" warning.
C7_FailureCountSurfaced ==
    (pc = "done" /\ error.kind # "fatal" /\ FailedCount >= 1)
    => /\ stats.present /\ stats.errors = FailedCount /\ stats.total = N
       /\ error = WarningMessage(stats)
       /\ partialResults

\* C8: when item fetches failed, the coordinator still stores every outcome
\* of the batch and counts over all of them: one result per listed flag, each
\* success with its detail.
C8_PartialResultsKept ==
    (pc = "done" /\ error.kind # "fatal")
    => /\ Len(results) = N
       /\ \A p \in 1..N :
             /\ results[p] = item[p].out
             /\ results[p].flagStatus = flags[p]
             /\ Succeeds(p) => results[p].detail = CatalogueDetail(flags[p].key)
       /\ summary.all = N
       /\ summary.mismatches =
             Cardinality({ p \in 1..N : hasMismatch(item[p].out, environment) })

\* a finished run whose results hold a failed item, a fetched flag that
\* matches and a fetched flag that mismatches
C8_Witness ==
    /\ pc = "done" /\ error.kind # "fatal"
    /\ \E a, b \in DOMAIN results :
          /\ HasError(results[a])
          /\ HasDetail(results[b].detail)
          /\ hasMismatch(results[b], environment)

(***************************************************************************)
(* The view and the export: getFilteredResults with the page's initial      *)
(* filter ('all'), search ('') and sort (by name, ascending), and           *)
(* handleExport over it.  Names are codes ordered as localeCompare orders   *)
(* the names; 0 is 'Unknown Flag'.                                          *)
(***************************************************************************)
flagNameOf(o) == IF HasDetail(o.detail) THEN o.detail.name ELSE 0
flagKeyOf(o) == IF HasDetail(o.detail) THEN o.detail.key ELSE o.flagStatus.key

RECURSIVE InsertByName(_, _)
InsertByName(sorted, o) ==
    IF sorted = << >> THEN << o >>
    ELSE IF flagNameOf(sorted[Len(sorted)]) <= flagNameOf(o) THEN Append(sorted, o)
    ELSE Append(InsertByName(SubSeq(sorted, 1, Len(sorted) - 1), o), sorted[Len(sorted)])

\* [...filtered].sort(...) by name: a stable sort
RECURSIVE SortByName(_)
SortByName(seq) ==
    IF seq = << >> THEN << >>
    ELSE InsertByName(SortByName(SubSeq(seq, 1, Len(seq) - 1)), seq[Len(seq)])

getFilteredResults == SortByName(results)

ExportRow(o, env) ==
    [flagKey |-> flagKeyOf(o),
     status |-> o.flagStatus.name,
     fallbackValue |-> o.flagStatus.default,
     environmentDefaultValue |-> prodResultOf(o, env).value,
     bcpHealth |-> bcpHealth(o, env),
     hasMismatch |-> hasMismatch(o, env),
     variationName |-> prodResultOf(o, env).variationName]

handleExport ==
    /\ pc = "done" /\ Len(results) > 0
    /\ exported = << >>
    /\ exported' = [k \in DOMAIN getFilteredResults |->
                        ExportRow(getFilteredResults[k], environment)]
    /\ UNCHANGED << rateLimitInfo, call, observed, listing, view, progress,
                    impl, flags, behav, arrival, environment, pc, resultsAtSubmit,
                    loading, error, partialResults, results, summary, flagDetails,
                    stats, i, wave, item, settleOrder, routeResults >>

(***************************************************************************)
(* The specification of the evaluation: the batch has returned a list of    *)
(* outcomes drawn from bounded sets, and the coordinator analyses and       *)
(* exports it.                                                              *)
(***************************************************************************)
Fallbacks == { Undefined, Null, JSBool(TRUE), JSBool(FALSE), JSNum(1), JSStr(1),
               JSObj(1, 7) }
VariationValues == { JSBool(TRUE), JSBool(FALSE), JSNum(1), JSStr(1), Null,
                     JSObj(101, 7) }
GoverningIndexes == { Undefined, Null, JSNum(0), JSNum(1), JSNum(2), JSNum(-1),
                      JSFrac(0) }

EvalDetail(k, envKey, on, idx, v0) ==
    [key |-> k, name |-> MaxOutcomes + 1 - k, hasEnvironments |-> TRUE,
     environments |-> [e \in {envKey} |->
         [on |-> JSBool(on),
          fallthrough |-> IF on THEN idx ELSE JSNum(0),
          offVariation |-> IF on THEN JSNum(1) ELSE idx]],
     hasVariations |-> TRUE,
     variations |-> << [value |-> v0, name |-> "a"],
                       [value |-> JSBool(v0 = JSBool(FALSE)), name |-> "b"] >>]

\* a detail without `environments`, and one without `variations`
EvalDetailNoEnvironments(k) ==
    [EvalDetail(k, "production", TRUE, JSNum(0), JSBool(TRUE))
        EXCEPT !.hasEnvironments = FALSE]
EvalDetailNoVariations(k) ==
    [EvalDetail(k, "production", TRUE, JSNum(0), JSBool(TRUE))
        EXCEPT !.hasVariations = FALSE]

EvalDetails(k) ==
    { EvalDetail(k, "production", on, idx, v0) :
          on \in BOOLEAN, idx \in GoverningIndexes, v0 \in VariationValues }
    \cup { EvalDetail(k, "staging", TRUE, JSNum(0), JSBool(TRUE)),
           EvalDetailNoEnvironments(k), EvalDetailNoVariations(k) }

EvalStatus(k, fb) ==
    [key |-> k, href |-> TRUE, name |-> StatusNames[(k % 4) + 1], default |-> fb]

\* every outcome the batch can return for position k
EvalOutcomes(k) ==
    { Outcome(EvalStatus(k, fb), d, NoError) : fb \in Fallbacks, d \in EvalDetails(k) }
    \cup { Outcome(EvalStatus(k, fb), NoDetail, "Failed to fetch detail") :
               fb \in Fallbacks }

\* a match, a mismatch, a flag without fallback and a failed fetch
Fillers(k) ==
    { Outcome(EvalStatus(k, JSBool(TRUE)),
              EvalDetail(k, "production", TRUE, JSNum(0), JSBool(TRUE)), NoError),
      Outcome(EvalStatus(k, JSBool(FALSE)),
              EvalDetail(k, "production", TRUE, JSNum(0), JSBool(TRUE)), NoError),
      Outcome(EvalStatus(k, Null),
              EvalDetail(k, "production", TRUE, JSNum(0), JSBool(TRUE)), NoError),
      Outcome(EvalStatus(k, JSBool(TRUE)), NoDetail, "Failed to fetch detail") }

\* lists whose first outcome is any outcome and whose others are fillers
RECURSIVE EvalListsOf(_)
EvalListsOf(n) ==
    IF n = 0 THEN { << >> }
    ELSE IF n = 1 THEN { << o >> : o \in EvalOutcomes(1) }
    ELSE { Append(fd, o) : fd \in EvalListsOf(n - 1), o \in Fillers(n) }

InitEval ==
    /\ impl = "next"
    /\ \E n \in 0..MaxOutcomes : flagDetails \in EvalListsOf(n)
    /\ flags = [k \in DOMAIN flagDetails |-> flagDetails[k].flagStatus]
    /\ behav = [k \in DOMAIN flagDetails |-> PlainOk]
    /\ arrival = "any"
    /\ item = [k \in DOMAIN flagDetails |-> Settled(flagDetails[k])]
    /\ routeResults = flagDetails
    /\ environment = "production"
    /\ pc = "analyzing"
    /\ resultsAtSubmit = << >>
    /\ loading = TRUE
    /\ error = NoMessage
    /\ partialResults = FALSE
    /\ results = << >>
    /\ summary = NoSummary
    /\ stats = NoStats
    /\ exported = << >>
    /\ i = 0
    /\ wave = "none"
    /\ settleOrder = << >>
    /\ rateLimitInfo = NoRateLimitInfo
    /\ observed = NoObservation
    /\ listing = NoListing
    /\ view = InitialView
    /\ call = NoCall
    /\ progress = << >>

NextEval == Analyze \/ handleExport

SpecEval == InitEval /\ [][NextEval]_vars

(***************************************************************************)
(* The results view after a check: the user changes the filter, the search  *)
(* text, the sort and the environment field; none of them starts a check.   *)
(***************************************************************************)
\* results.filter(...) of the 'mismatch' filter, with the environment of
\* the form as it is now
MismatchFilter(res, env) == SelectSeq(res, LAMBDA o : hasMismatch(o, env))


viewFrame == << impl, flags, behav, arrival, pc, resultsAtSubmit, loading, error,
                partialResults, results, summary, flagDetails, stats, exported,
                i, wave, item, settleOrder, routeResults, progress,
                rateLimitInfo, call, observed, listing >>

handleFilter ==
    /\ pc = "done"
    /\ \E f \in { "all", "mismatch", "launched", "active", "inactive" } \ { view.filter } : view' = [view EXCEPT !.filter = f]
    /\ UNCHANGED << environment, viewFrame >>

setSearchQuery ==
    /\ pc = "done"
    /\ \E q \in { "", "flag" } \ { view.searchQuery } : view' = [view EXCEPT !.searchQuery = q]
    /\ UNCHANGED << environment, viewFrame >>

setSortBy ==
    /\ pc = "done"
    /\ \E k \in { "name", "mismatch" } \ { view.sortBy } : view' = [view EXCEPT !.sortBy = k]
    /\ UNCHANGED << environment, viewFrame >>

setSortOrder ==
    /\ pc = "done"
    /\ view' = [view EXCEPT !.sortOrder = IF @ = "asc" THEN "desc" ELSE "asc"]
    /\ UNCHANGED << environment, viewFrame >>

\* the environment field can hold the key of the check, another key, nothing
setEnvironment ==
    /\ pc = "done"
    /\ \E e \in { "production", "staging", "" } \ { environment } : environment' = e
    /\ UNCHANGED << view, viewFrame >>

\* the check has returned outcomes of the usual kinds
InitView ==
    /\ InitEval
    /\ \A k \in DOMAIN flagDetails : flagDetails[k] \in Fillers(k)

NextView ==
    \/ Analyze
    \/ handleFilter
    \/ setSearchQuery
    \/ setSortBy
    \/ setSortOrder
    \/ setEnvironment

SpecView == InitView /\ [][NextView]_vars

\* the classification as claimed, from the fallback and the derived default
ClaimedClass(fb, prod) ==
    IF fb = Null \/ fb = Undefined THEN "Unable to Determine"
    ELSE IF prod.error THEN "Unable to Determine"
    ELSE IF fb.t = prod.value.t /\ fb.v = prod.value.v THEN "Match"
    ELSE "Mismatch"

ResultOfKey(key) == CHOOSE o \in { results[k] : k \in DOMAIN results } : flagKeyOf(o) = key

\* C9: the classification is three-way and total: Indeterminate when the
\* fallback is null or absent, else Indeterminate when the environment
\* default is indeterminate, else Match when fallback and default are
\* strictly equal (objects by reference), Mismatch otherwise.
C9_ClassificationThreeWay ==
    \A r \in DOMAIN exported :
        LET row == exported[r]
            o == ResultOfKey(row.flagKey)
        IN  /\ row.bcpHealth \in {"Match", "Mismatch", "Unable to Determine"}
            /\ row.bcpHealth = ClaimedClass(o.flagStatus.default,
                                            prodResultOf(o, environment))
            /\ row.hasMismatch <=> row.bcpHealth = "Mismatch"

\* an export with a Match, an Indeterminate, and a Mismatch of two objects
\* of the same content
C9_Witness ==
    /\ \E r \in DOMAIN exported : exported[r].bcpHealth = "Match"
    /\ \E r \in DOMAIN exported : exported[r].bcpHealth = "Unable to Determine"
    /\ \E r \in DOMAIN exported :
          /\ exported[r].bcpHealth = "Mismatch"
          /\ exported[r].fallbackValue.t = "object"
          /\ exported[r].environmentDefaultValue.t = "object"
          /\ exported[r].fallbackValue.shape = exported[r].environmentDefaultValue.shape

ClassOf(o) == ClaimedClass(o.flagStatus.default, prodResultOf(o, environment))

\* C10: the summary's mismatch count is the number of outcomes classified
\* Mismatch; an Indeterminate outcome (null or absent fallback, indeterminate
\* default, fetch error) is never counted.
C10_MismatchCount ==
    pc = "done" =>
        /\ summary.mismatches =
              Cardinality({ k \in DOMAIN results : ClassOf(results[k]) = "Mismatch" })
        /\ summary.mismatches + Cardinality({ k \in DOMAIN results :
                                    ClassOf(results[k]) = "Unable to Determine" })
              <= Len(results)

\* a summary over a mismatch, a failed fetch and a flag whose default cannot
\* be determined: one mismatch counted
C10_Witness ==
    /\ pc = "done"
    /\ summary.mismatches = 1
    /\ \E a, b \in DOMAIN results :
          /\ HasError(results[a])
          /\ HasDetail(results[b].detail)
          /\ ~isFallbackNull(results[b])
          /\ prodResultOf(results[b], environment).error

(***************************************************************************)
(* Properties of getEnvironmentDefaultValue, over the exported rows.        *)
(***************************************************************************)
HasEnvironmentEntry(o, env) ==
    /\ HasDetail(o.detail)
    /\ o.detail.hasEnvironments
    /\ env \in DOMAIN o.detail.environments

VariationsOf(o) == IF o.detail.hasVariations THEN o.detail.variations ELSE << >>

\* the governing index as claimed: fallthrough index when on, else off index
ClaimedIndex(o, env) ==
    LET e == o.detail.environments[env]
    IN  IF e.on = JSBool(TRUE) THEN e.fallthrough ELSE e.offVariation

\* an index that is an integer within 0 .. length - 1
ClaimedResolves(o, env) ==
    LET g == ClaimedIndex(o, env)
    IN  /\ g.t = "number" /\ g.shape = 0
        /\ g.v \in 0..(Len(VariationsOf(o)) - 1)

\* C11: when the definition has an entry for the environment and the
\* governing index (fallthrough index if on, off index otherwise) resolves to
\* a variation, getEnvironmentDefaultValue returns that variation's value,
\* the index and the variation's name, and the export carries them.
C11_GoverningVariationReturned ==
    \A r \in DOMAIN exported :
        LET row == exported[r]
            o == ResultOfKey(row.flagKey)
        IN  (HasEnvironmentEntry(o, environment) /\ ClaimedResolves(o, environment))
            => LET g == ClaimedIndex(o, environment)
                   v == VariationsOf(o)[g.v + 1]
                   res == getEnvironmentDefaultValue(o.detail, environment)
               IN  /\ res.error = FALSE
                   /\ res.value = v.value
                   /\ res.variationIndex = g
                   /\ res.variationName = v.name
                   /\ row.environmentDefaultValue = v.value
                   /\ row.variationName = v.name

\* the export of a flag that is on with fallthrough index 1 over the
\* variations [false, true]: value true, the second variation's name
C11_Witness ==
    \E r \in DOMAIN exported :
        LET row == exported[r]
            o == ResultOfKey(row.flagKey)
        IN  /\ HasEnvironmentEntry(o, environment)
            /\ o.detail.environments[environment].on = JSBool(TRUE)
            /\ o.detail.environments[environment].fallthrough = JSNum(1)
            /\ o.detail.variations[1].value = JSBool(FALSE)
            /\ o.detail.variations[2].value = JSBool(TRUE)
            /\ row.environmentDefaultValue = JSBool(TRUE)
            /\ row.variationName = "b"

\* C12: getEnvironmentDefaultValue returns the indeterminate result, and the
\* export completes with a row for every result, whenever the definition is
\* absent, has no entry for the environment, the governing index is absent,
\* or the index does not resolve to an entry of variations.
C12_IndeterminateOnUnresolved ==
    /\ exported # << >> => Len(exported) = Len(results)
    /\ \A r \in DOMAIN exported :
          LET row == exported[r]
              o == ResultOfKey(row.flagKey)
          IN  (~HasEnvironmentEntry(o, environment)
               \/ IsNullish(ClaimedIndex(o, environment))
               \/ ~ClaimedResolves(o, environment))
              => /\ prodResultOf(o, environment).error = TRUE
                 /\ prodResultOf(o, environment).value = JSStr(0)
                 /\ row.environmentDefaultValue = JSStr(0)
                 /\ row.bcpHealth = "Unable to Determine"
                 /\ row.hasMismatch = FALSE

\* the export of a flag with a fallback whose governing index is negative
C12_Witness ==
    \E r \in DOMAIN exported :
        LET row == exported[r]
            o == ResultOfKey(row.flagKey)
        IN  /\ HasEnvironmentEntry(o, environment)
            /\ ClaimedIndex(o, environment) = JSNum(-1)
            /\ ~isFallbackNull(o)
            /\ row.bcpHealth = "Unable to Determine"

(***************************************************************************)
(* Properties of the summary.                                               *)
(***************************************************************************)
\* C13: every flag is counted in exactly one status bucket: launched +
\* active + inactive equals the number of outcomes and the 'all' total; the
\* mismatch count never exceeds the total.
C13_OneStatusBucket ==
    (pc = "done" /\ error.kind # "fatal")
    => /\ summary.launched + summary.active + summary.inactive = Len(results)
       /\ summary.launched + summary.active + summary.inactive = summary.all
       /\ summary.mismatches <= summary.all

(***************************************************************************)
(* The specification of the outbound calls: MaxCalls calls, one after the   *)
(* other, against an upstream that answers every fetch with any reply.      *)
(***************************************************************************)
InitFetch ==
    /\ impl \in {"next", "legacy"}
    /\ rateLimitInfo = NoRateLimitInfo
    /\ observed = NoObservation
    /\ listing = NoListing
    /\ view = InitialView
    /\ call = NoCall
    /\ progress = << >>
    /\ flags = << >>
    /\ behav = << >>
    /\ arrival = "any"
    /\ item = << >>
    /\ environment = "production"
    /\ pc = "idle"
    /\ resultsAtSubmit = << >>
    /\ loading = FALSE
    /\ error = NoMessage
    /\ partialResults = FALSE
    /\ results = << >>
    /\ summary = NoSummary
    /\ flagDetails = << >>
    /\ stats = NoStats
    /\ exported = << >>
    /\ i = 0
    /\ wave = "none"
    /\ settleOrder = << >>
    /\ routeResults = << >>

NextFetch == StartCall \/ FetchSettles \/ RetryTimerFires

SpecFetch == InitFetch /\ [][NextFetch]_vars

\* one outbound call from its start to its end: every fetch settles and
\* every retry timer fires
FirstCall == call.served = 0 /\ StartCall

NextFetchOnce == FirstCall \/ FetchSettles \/ RetryTimerFires

SpecFetchFair ==
    /\ InitFetch /\ [][NextFetchOnce]_vars
    /\ WF_vars(FetchSettles) /\ WF_vars(RetryTimerFires)

\* the project listings; every page request is answered or fails
InitList ==
    /\ impl \in {"next", "legacy"}
    /\ listing = NoListing
    /\ view = InitialView
    /\ rateLimitInfo = NoRateLimitInfo
    /\ observed = NoObservation
    /\ call = NoCall
    /\ progress = << >>
    /\ flags = << >>
    /\ behav = << >>
    /\ arrival = "any"
    /\ item = << >>
    /\ environment = "production"
    /\ pc = "idle"
    /\ resultsAtSubmit = << >>
    /\ loading = FALSE
    /\ error = NoMessage
    /\ partialResults = FALSE
    /\ results = << >>
    /\ summary = NoSummary
    /\ flagDetails = << >>
    /\ stats = NoStats
    /\ exported = << >>
    /\ i = 0
    /\ wave = "none"
    /\ settleOrder = << >>
    /\ routeResults = << >>

NextList == StartListing \/ PageArrives \/ PageFails

SpecList == InitList /\ [][NextList]_vars /\ WF_vars(PageArrives \/ PageFails)

\* the outbound calls of one caller among concurrent callers
NextObserve == FirstCall \/ FetchSettles \/ RetryTimerFires \/ ConcurrentObserve

SpecObserve == InitFetch /\ [][NextObserve]_vars

(***************************************************************************)
(* Properties of the rate limiter and of fetchWithRetry.                    *)
(***************************************************************************)
\* the remaining counts that are known
KnownRemaining(info) ==
    { x \in { info.globalRemaining, info.routeRemaining } : x.k = "num" }

\* at least one count is known and the minimum of the known ones is below t
ClaimedThrottle(info, t) ==
    /\ KnownRemaining(info) # {}
    /\ \E x \in KnownRemaining(info) :
          /\ \A y \in KnownRemaining(info) : x.n <= y.n
          /\ x.n < t

LacksQuotaHeaders(headers) ==
    \A h \in { "x-ratelimit-global-remaining", "ratelimit-global-remaining",
                "x-ratelimit-route-remaining", "ratelimit-route-remaining" } :
        ~Truthy(headers[h])

\* C14: shouldThrottle() (threshold 10) is true if and only if at least one
\* of globalRemaining and routeRemaining is known and the minimum of the
\* known ones is below 10; after a response without any quota header it is
\* false.
C14_ThrottleIffKnownMinBelow ==
    /\ call.pc = "fetch"
         => (call.throttle.throttled <=> ClaimedThrottle(rateLimitInfo, 10))
    /\ (impl = "next" /\ call.pc = "idle" /\ call.outcome = "returned"
          /\ LacksQuotaHeaders(call.last.headers))
         => ~shouldThrottle(rateLimitInfo, threshold)

\* the check before a second call finds 10 global and 0 route requests
\* remaining and throttles
C14_Witness ==
    /\ call.pc = "fetch" /\ call.served = 1 /\ call.fetches = 0
    /\ rateLimitInfo.globalRemaining = RLNum(10)
    /\ rateLimitInfo.routeRemaining = RLNum(0)
    /\ call.throttle.throttled

\* the fetch of the current attempt has settled: call.last is its reply
Answered == call.fetches = call.attempt + 1

\* C15: when the last attempt the retry budget allows yields a retryable
\* status, as it does when every attempt yields one, fetchWithRetry returns
\* that response to its caller (which reads its headers) and does not throw.
C15_LastRetryableResponseReturned ==
    (impl = "next" /\ Answered /\ call.last.type = "response"
     /\ call.last.status \in {429, 500, 502, 503, 504}
     /\ call.attempt = call.config.maxRetries)
    => /\ call.pc = "idle"
       /\ call.outcome = "returned"
       /\ call.fetches = call.config.maxRetries + 1
       /\ rateLimitInfo = updateFromHeaders(NoRateLimitInfo, call.last.headers)

\* a call with maxRetries 3 whose four attempts all got a retryable status
C15_Witness ==
    /\ impl = "next" /\ call.pc = "idle" /\ call.outcome = "returned"
    /\ call.config.maxRetries = 3
    /\ call.fetches = 4 /\ call.statusRetries = 4
    /\ call.last.status = 503

\* C16: a non-2xx response whose status is not retryable ends fetchWithRetry
\* at once: the response is returned, no wait and no further attempt follow,
\* and the fetches issued are the attempts made so far.
C16_NonRetryableReturnedAtOnce ==
    (impl = "next" /\ Answered /\ call.last.type = "response"
     /\ ~(call.last.status \in 200..299)
     /\ call.last.status \notin {429, 500, 502, 503, 504})
    => /\ call.pc = "idle"
       /\ call.outcome = "returned"

\* a 404 on the second attempt, after one retry
C16_Witness ==
    /\ impl = "next" /\ call.pc = "idle" /\ call.outcome = "returned"
    /\ call.last.type = "response" /\ call.last.status = 404
    /\ call.attempt = 1 /\ call.fetches = 2

\* a connection reset or a timeout as fetch() reports it: an error carrying
\* the system's code, or the TypeError fetch rejects with on a network error
TransportFailure(reply) ==
    /\ reply.type = "error"
    /\ reply.code \in {"ECONNRESET", "ETIMEDOUT"} \/ reply.name = "TypeError"

AttemptsRemain ==
    IF impl = "next" THEN call.attempt < call.config.maxRetries ELSE call.retries > 0

\* the wait a retryable status without Retry-After gets at this attempt
StatusSchedule ==
    IF impl = "next" THEN Min(call.config.initialDelay * Pow(2, call.attempt), 30000)
    ELSE 2000

\* C17: a transport-level failure of an attempt is retried with the backoff
\* schedule of a retryable status while retries remain, and is thrown to the
\* caller only when they are exhausted.
C17_TransportFailureRetried ==
    (Answered /\ TransportFailure(call.last))
    => IF AttemptsRemain
       THEN call.pc = "wait" /\ call.wait = StatusSchedule
       ELSE call.pc = "idle" /\ call.outcome = "thrown"

(***************************************************************************)
(* The specification of the page over repeated checks: short lists with     *)
(* every upstream behaviour and a two-wave list, submitted again and again  *)
(* against the same upstream data, with the progress timer running.         *)
(***************************************************************************)
PageLengths == (0..MaxFree) \cup { batchSize + 1 }

PageWorlds(n) ==
    IF n <= MaxFree THEN [1..n -> ItemWorlds]
    ELSE { [p \in 1..n |-> IF p = 1 THEN w ELSE PlainOk] : w \in ItemWorlds }

InitPage ==
    /\ impl \in {"next", "legacy"}
    /\ \E n \in PageLengths :
          /\ behav \in PageWorlds(n)
          /\ flags = [p \in 1..n |-> CatalogueStatus(p, behav[p].href)]
          /\ arrival = IF n <= MaxAny THEN "any" ELSE "fifo"
          /\ item = [p \in 1..n |-> Unissued]
    /\ environment = "production"
    /\ pc = "idle"
    /\ resultsAtSubmit = << >>
    /\ loading = FALSE
    /\ error = NoMessage
    /\ partialResults = FALSE
    /\ results = << >>
    /\ summary = NoSummary
    /\ flagDetails = << >>
    /\ stats = NoStats
    /\ exported = << >>
    /\ i = 0
    /\ wave = "none"
    /\ settleOrder = << >>
    /\ routeResults = << >>
    /\ rateLimitInfo = NoRateLimitInfo
    /\ observed = NoObservation
    /\ listing = NoListing
    /\ view = InitialView
    /\ call = NoCall
    /\ progress = << >>

NextPage ==
    \/ Submit
    \/ Resubmit
    \/ ListingFails
    \/ ListingOk
    \/ \E p \in DOMAIN item : Respond(p)
    \/ \E p \in DOMAIN item : Wake(p)
    \/ WaveSettled
    \/ CooldownElapsed
    \/ ProgressTick
    \/ BatchReturned
    \/ Analyze

SpecPage == InitPage /\ [][NextPage]_vars

(***************************************************************************)
(* Properties of the coordinator over repeated checks.                      *)
(***************************************************************************)
\* C18: the batch fetch starts only after the listing has returned at least
\* one flag; when the listing fails or is empty the check ends with an error,
\* no detail fetch is issued and no results or summary are produced.
C18_NoBatchWithoutListing ==
    /\ [](pc = "batch" => Len(flags) > 0)
    /\ [][(pc = "listing" /\ pc' # "batch")
           => /\ pc' = "done"
              /\ error'.kind # "none"
              /\ ~loading'
              /\ \A p \in DOMAIN item' : item'[p].st = "unissued"
              /\ wave' = wave /\ routeResults' = routeResults
              /\ flagDetails' = flagDetails
              /\ results' = << >>
              /\ summary' = summary]_vars

\* a check of a project without flags has ended with the 'no flags' error
C18_Witness ==
    /\ pc = "done" /\ Len(flags) = 0
    /\ error.msg = "No flags found for this project and environment"
    /\ results = << >> /\ summary = NoSummary

\* the health labels of a list of outcomes
Classifications(res) == [k \in DOMAIN res |-> bcpHealth(res[k], environment)]

\* C19: a check that completes after a completed check of the same upstream
\* data yields the same results, the same summary and the same per-flag
\* classifications as the one before.
C19_RerunIdentical ==
    [][(pc # "done" /\ pc' = "done" /\ Len(results') > 0 /\ Len(resultsAtSubmit) > 0)
       => /\ results' = resultsAtSubmit
          /\ summary' = summary
          /\ Classifications(results') = Classifications(resultsAtSubmit)]_vars

\* a second check of a two-wave list with a flag whose fetch failed and
\* mismatching flags has completed with the results of the first
C19_Witness ==
    /\ pc = "done" /\ Len(resultsAtSubmit) > batchSize
    /\ results = resultsAtSubmit
    /\ \E a, b \in DOMAIN results :
          hasMismatch(results[a], environment) /\ HasError(results[b])
    /\ summary.mismatches > 0 /\ summary.all = Len(results)

\* the waves that have settled in the running batch
WavesCompleted == (Len(routeResults) + batchSize - 1) \div batchSize

\* the reports made while the batch is fetched (the page reports 0 of 1
\* before, while it fetches the statuses)
BatchReports == IF impl = "next" THEN Tail(progress) ELSE progress

\* C20: the progress sink is invoked exactly once after each settled wave,
\* with processed = min(15 * waves completed, total): the processed values
\* increase strictly, never exceed total, and the last one is total.
C20_ProgressAfterEachWave ==
    (pc = "batch" \/ (pc \in {"analyzing", "done"} /\ Len(routeResults) > 0
                                                  /\ progress # << >>))
    => BatchReports = [k \in 1..WavesCompleted |->
                          [current |-> Min(15 * k, Len(flags)), total |-> Len(flags)]]

(***************************************************************************)
(* Properties of the attempts of one outbound call.                         *)
(***************************************************************************)
\* C21: every attempt of an outbound call, the first try and each retry, is
\* preceded by a throttle check: when a fetch is about to be issued, as many
\* checks as attempts have been made.
C21_ThrottleCheckBeforeEveryAttempt ==
    call.pc = "fetch" => call.checks = call.attempt + 1

\* a retryable status has been answered on an attempt that is not the last
RetryableStatusWithAttemptsLeft ==
    /\ impl = "next" /\ Answered
    /\ call.last.type = "response" /\ call.last.status \in retryableStatuses
    /\ call.attempt < call.config.maxRetries

\* C22: after a retryable status with attempts left, the wait of
\* fetchWithRetry is the Retry-After value of the response (seconds, in ms)
\* when that header is present (a positive time when it is a date), and
\* min(initialDelay * backoffMultiplier^attempt, maxDelay) otherwise.
C22_RetryWaitIsRetryAfterOrBackoff ==
    RetryableStatusWithAttemptsLeft
    => /\ call.pc = "wait"
       /\ LET retryAfter == call.last.headers["retry-after"]
          IN  CASE retryAfter.kind = "digits" -> call.wait = retryAfter.n * 1000
                [] retryAfter.kind = "date" -> call.wait > 0
                [] OTHER -> call.wait = Min(call.config.initialDelay
                                              * Pow(backoffMultiplier, call.attempt),
                                            maxDelay)

(***************************************************************************)
(* Properties of the quota state.                                           *)
(***************************************************************************)
\* the value a quota field takes from one response: the number in the
\* header (under its usual or its other name), unknown when there is none
ClaimedField(headers, name, otherName) ==
    LET parsed(h) == IF h.kind = "digits" THEN RLNum(h.n) ELSE RLNaN
    IN  IF headers[name].present /\ headers[name].kind # "empty"
        THEN parsed(headers[name])
        ELSE IF headers[otherName].present /\ headers[otherName].kind # "empty"
        THEN parsed(headers[otherName])
        ELSE RLNull

\* C23: after any sequence of updateFromHeaders calls, of this caller and of
\* concurrent ones in any interleaving, the quota state is what the headers
\* of the latest call alone say: a field that response lacks is unknown, and
\* nothing carries over from the state before.
C23_LastObservationWins ==
    LET h == observed.headers
    IN  /\ rateLimitInfo.globalRemaining
              = ClaimedField(h, "x-ratelimit-global-remaining", "ratelimit-global-remaining")
        /\ rateLimitInfo.routeRemaining
              = ClaimedField(h, "x-ratelimit-route-remaining", "ratelimit-route-remaining")
        /\ rateLimitInfo.resetTime
              = ClaimedField(h, "x-ratelimit-reset", "ratelimit-reset")
        /\ impl = "next"
              => rateLimitInfo.retryAfter = ClaimedField(h, "retry-after", "retry-after")

\* while the first call of this caller waits for its retry timer, concurrent
\* callers have observed a response with quota headers and then one with a
\* reset time alone: the counts are unknown again
C23_Witness ==
    /\ impl = "next" /\ call.served = 0 /\ call.pc = "wait"
    /\ observed.known
    /\ observed.headers = Hdrs(NoHeader, NoHeader, NoHeader, HdrInt(105000), NoHeader)
    /\ rateLimitInfo = [NoRateLimitInfo EXCEPT !.resetTime = RLNum(105000)]

\* the throttle check of the call has just been made
JustChecked == call.pc = "fetch" /\ call.fetches = call.attempt

\* C24: a throttled waitIfNeeded suspends its caller for the computed wait
\* capped at 15 seconds, so never for longer, and the caller proceeds when
\* the reset lies further out; when not throttled it does not suspend.
C24_SuspendsForCappedWait ==
    JustChecked
    => LET t == call.throttle
       IN  /\ t.slept <= maxWait
           /\ ~t.throttled => t.slept = 0
           /\ (t.throttled /\ t.waitTime.k = "num")
                 => t.slept = Min(t.waitTime.n, maxWait)

\* C25: when a RateLimiter throttles, the computed wait is retryAfter * 1000
\* whenever retryAfter is not null; only when it is null is the wait
\* max(0, resetTime - now + 100), and 0 when resetTime is null too.
C25_RetryAfterBeforeReset ==
    (impl = "next" /\ JustChecked /\ call.throttle.throttled)
    => LET w == call.throttle.waitTime
           times(x, f) == IF x.k = "num" THEN RLNum(x.n * f) ELSE RLNaN
       IN  IF rateLimitInfo.retryAfter # RLNull
           THEN w = times(rateLimitInfo.retryAfter, 1000)
           ELSE IF rateLimitInfo.resetTime # RLNull
           THEN \E now \in Times :
                    w = IF rateLimitInfo.resetTime.k = "num"
                        THEN RLNum(Max(0, rateLimitInfo.resetTime.n - now + 100))
                        ELSE RLNaN
           ELSE w = RLNum(0)

\* a throttled check with a Retry-After of 20 s and a reset 30 s ahead
\* computes 20000 ms
C25_Witness ==
    /\ impl = "next" /\ JustChecked /\ call.throttle.throttled
    /\ rateLimitInfo.retryAfter = RLNum(20)
    /\ rateLimitInfo.resetTime = RLNum(130000)
    /\ call.throttle.waitTime = RLNum(20000)

(***************************************************************************)
(* Properties of the project listing.                                       *)
(***************************************************************************)
\* the requests the listing makes for the totalCount the upstream reports
ClaimedRequests ==
    IF listing.reported.k = "num" /\ listing.reported.n > 0
    THEN (listing.reported.n + 19) \div 20
    ELSE 1

ListingInOrder ==
    /\ \A k \in DOMAIN listing.requests : listing.requests[k] = 20 * (k - 1)
    /\ Len(listing.requests) <= ClaimedRequests
    /\ listing.pc = "done"
         => /\ Len(listing.requests) = ClaimedRequests
            /\ listing.ok
            /\ listing.projects =
                   [k \in 1..Min(listing.n, 20 * ClaimedRequests) |-> k]
    /\ listing.pc = "failed"
         => /\ ~listing.ok
            /\ listing.projects = listing.before
            /\ impl = "next" => listing.projects = << >>

\* C26: the project listing requests the offsets 0, 20, 40, ... and ends
\* for every totalCount the upstream reports, after ceil(totalCount / 20)
\* requests (one when totalCount is 0 or absent), with the items of all
\* pages in page order; a page that fails fails the listing, and its caller
\* gets no part of the list.
C26_ListingPagesAndEnds ==
    /\ []ListingInOrder
    /\ (listing.pc = "request") ~> (listing.pc \in {"done", "failed"})

\* 41 projects have been listed with three requests
C26_Witness ==
    /\ listing.pc = "done" /\ listing.n = 41
    /\ listing.requests = << 0, 20, 40 >>
    /\ Len(listing.projects) = 41
    /\ listing.projects[21] = 21 /\ listing.projects[41] = 41

(***************************************************************************)
(* Properties of the retry budget.                                          *)
(***************************************************************************)
\* the fetches one call may issue
ClaimedFetches == IF impl = "next" THEN call.config.maxRetries + 1 ELSE 4

FetchesWithinBudget ==
    /\ call.fetches <= ClaimedFetches
    /\ (call.fetches = ClaimedFetches /\ Answered)
         => call.pc = "idle" /\ call.outcome \in {"returned", "thrown"}

\* C27: whatever the upstream answers, one call of fetchWithRetry issues at
\* most maxRetries + 1 fetches, one call of fetchWithRateLimit at most 4
\* (429 responses and network errors drawing on the same 3 retries), and
\* the call ends, returning a response or throwing.
C27_BoundedFetchesAndEnd ==
    /\ []FetchesWithinBudget
    /\ (call.pc \in {"fetch", "wait"})
          ~> (call.pc = "idle" /\ call.outcome \in {"returned", "thrown"})

\* a call with maxRetries 3 has thrown after its fourth fetch
C27_Witness ==
    /\ impl = "next" /\ call.config.maxRetries = 3
    /\ call.fetches = 4 /\ call.pc = "idle" /\ call.outcome = "thrown"
    /\ call.statusRetries > 0
    /\ call.last.type = "error"

\* C28: no wait between two attempts of fetchWithRetry exceeds maxDelay
\* (30 s), whatever the attempt number; when the Retry-After of the response
\* is larger than maxDelay the wait is maxDelay.
C28_WaitAtMostMaxDelay ==
    (impl = "next" /\ call.pc = "wait")
    => /\ call.wait <= 30000
       /\ LET retryAfter == call.last.headers["retry-after"]
          IN  (call.last.type = "response" /\ retryAfter.kind = "digits"
                 /\ retryAfter.n * 1000 > 30000)
              => call.wait = 30000

\* a 429 with Retry-After: 60 has been answered on the second attempt of a
\* caller with an initial delay of 16 s: the wait is 30 s
C28_Witness ==
    /\ impl = "next" /\ call.pc = "wait"
    /\ call.config.initialDelay = 16000 /\ call.attempt = 1
    /\ call.last.type = "response" /\ call.last.status = 429
    /\ call.last.headers["retry-after"] = HdrInt(60)
    /\ call.wait = 30000

(***************************************************************************)
(* Properties of the page after a check.                                    *)
(***************************************************************************)
\* the check has ended without results: its listing failed or was empty
EndedFatally == pc = "done" /\ results = << >>

\* C29: a check that ends in a fatal error is reported as an error and not
\* as partial results, whatever checks came before it: the results of an
\* earlier check do not make it a 'showing partial results' warning and the
\* partial-results flag is not set by it.
C29_FatalErrorIsNotPartial ==
    EndedFatally => error.kind = "fatal" /\ ~partialResults

\* C30: after a completed check and whatever the user then does to the
\* filter, the search text, the sort and the environment field, the mismatch
\* filter selects as many of the stored results as summary.mismatches says.
C30_MismatchFilterMatchesSummary ==
    pc = "done" => Len(MismatchFilter(results, environment)) = summary.mismatches

====
